---------------------------- MODULE Spec2Model ----------------------------
(* State-machine model of src/App.tsx (SenseBridge "Exploration Edition").  *)
(* The React state cells, the refs and the platform objects the handlers    *)
(* create (timers, file readers, microphone streams, pending service calls) *)
(* are the variables; each handler, each timer callback and each settlement *)
(* of an awaited call is one action.                                        *)
(*                                                                          *)
(* Nullable values are sequences: <<>> is null, <<v>> is the value v.       *)
(* Time is in milliseconds since the page was loaded.                       *)
EXTENDS Integers, Sequences, FiniteSets, TLC

\* ------------------------------------------------------------------ bounds
MaxTime == 3000          \* the clock stops advancing here
TickMs == 1500           \* largest single advance of the clock
MaxAnalyses == 2         \* analyzeEnvironment calls issued in a run
MaxQueries == 2          \* askSenseBridge calls issued in a run
MaxUploads == 2          \* file selections in a run
MaxTriggers == 2         \* motion-simulation clicks in a run
MaxStreams == 2          \* getUserMedia calls in a run
MaxOps == 4              \* operations started in a run of one panel
MaxSessionOps == 3       \* operations started in a run of the whole application

\* -------------------------------------------------------- program constants
MotionResetDelay == 3000
StepIntervalMs == 1500
HighScore == 80
MidScore == 50

ANALYSIS_STEPS ==
  << "Mapping Visual Terrain...",
     "Analyzing Acoustic Profile...",
     "Integrating Sensor Data...",
     "Triangulating Geo-Location...",
     "Assessing Traveler Safety...",
     "Synthesizing Exploration Insights..." >>

InitialLoadingText == "Initializing..."

\* Readings are in thousandths (0.02 is 20, 9.81 is 9810).
INITIAL_MOTION ==
  [ accel |-> [x |-> 20, y |-> 9810, z |-> 50],
    gyro  |-> [x |-> 10, y |-> 0,    z |-> 10] ]

ValidationError == "Please provide at least Visual or Audio input to analyze."
AnalysisFailedError == "Failed to analyze environment. Please try again."
MicDeniedError == "Microphone access denied."

\* ------------------------------------------------------------ input domains
None == << >>
Some(v) == << v >>

\* Files the user can pick; a data URL is "<header>,<payload>".
Files == {"imgA", "imgB"}
DataUrlHeader == "data:image/png;base64"
ReadAsDataURL(file) == << DataUrlHeader, file >>

\* Math.random() samples, in thousandths of [0, 1).
RandomSamples == {0, 999}

\* safety_score values the analysis service answers with.
Scores == {42, 85}

\* Text typed in the question field, as sequences of UTF-16 code units:
\* the empty text, a space and a no-break space, and " q ".
QueryTexts == { << >>, << 32, 160 >>, << 32, 113, 32 >> }

\* The code units String.prototype.trim strips: ECMAScript WhiteSpace (TAB,
\* VT, FF, SP, NBSP, ZWNBSP and the Unicode space separators) and
\* LineTerminator (LF, CR, LS, PS).
WhiteSpace ==
  {9, 11, 12, 32, 160, 5760, 8239, 8287, 12288, 65279} \cup (8192 .. 8202)
    \cup {10, 13, 8232, 8233}

\* ------------------------------------------------------------ pure helpers
\* String.prototype.split(',')[1] on a data URL.
SplitComma2_whole(url) == url

SplitComma2(url) == url[2]

\* JavaScript truthiness of a string | null cell.
TruthyStr(cell) == cell /= None /\ cell[1] /= ""

\* JavaScript truthiness of a data-URL | null cell (a data URL is non-empty).
TruthyFrame(cell) == cell /= None

RECURSIVE TrimStart(_)
TrimStart(s) ==
  IF s = << >> THEN << >>
  ELSE IF Head(s) \in WhiteSpace THEN TrimStart(Tail(s)) ELSE s

RECURSIVE TrimEnd(_)
TrimEnd(s) ==
  IF s = << >> THEN << >>
  ELSE IF s[Len(s)] \in WhiteSpace THEN TrimEnd(SubSeq(s, 1, Len(s) - 1)) ELSE s

\* String.prototype.trim
Trim(s) == TrimEnd(TrimStart(s))

\* Digits of n, most significant first, padded to width w.
RECURSIVE Digits(_, _)
Digits(n, w) == IF w = 0 THEN << >> ELSE Append(Digits(n \div 10, w - 1), n % 10)

\* Date.prototype.toISOString, time-of-day part "HH:mm:ss.sss" as digits; the
\* date part is the same for the whole session.
ToISOString(ms) ==
  Digits((ms \div 3600000) % 24, 2) \o Digits((ms \div 60000) % 60, 2)
    \o Digits((ms \div 1000) % 60, 2) \o Digits(ms % 1000, 3)

\* Lexicographic order on equal-length digit strings.
RECURSIVE LexLeq(_, _)
LexLeq(a, b) ==
  IF a = << >> THEN TRUE
  ELSE IF Head(a) < Head(b) THEN TRUE
  ELSE IF Head(a) > Head(b) THEN FALSE
  ELSE LexLeq(Tail(a), Tail(b))

getSafetyColor_strict(score) ==
  IF score > HighScore THEN "text-emerald-400"
  ELSE IF score >= MidScore THEN "text-yellow-400"
  ELSE "text-red-400"

getSafetyColor(score) ==
  IF score >= HighScore THEN "text-emerald-400"
  ELSE IF score >= MidScore THEN "text-yellow-400"
  ELSE "text-red-400"

getSafetyBg(score) ==
  IF score >= HighScore THEN "bg-emerald-500/10 border-emerald-500/20"
  ELSE IF score >= MidScore THEN "bg-yellow-500/10 border-yellow-500/20"
  ELSE "bg-red-500/10 border-red-500/20"

\* Band named by a class string produced by either helper.
BandOf(cls) ==
  IF cls \in {"text-emerald-400", "bg-emerald-500/10 border-emerald-500/20"} THEN "emerald"
  ELSE IF cls \in {"text-yellow-400", "bg-yellow-500/10 border-yellow-500/20"} THEN "yellow"
  ELSE IF cls \in {"text-red-400", "bg-red-500/10 border-red-500/20"} THEN "red"
  ELSE "none"

\* One simulated reading from six Math.random() draws (thousandths).
NewMotion(r1, r2, r3, r4, r5, r6) ==
  [ accel |-> [x |-> (r1 - 500) * 8, y |-> 9810 + (r2 - 500) * 5, z |-> (r3 - 500) * 8],
    gyro  |-> [x |-> (r4 - 500) * 2, y |-> (r5 - 500) * 2, z |-> (r6 - 500) * 2] ]

\* ---------------------------------------------------------------- variables
VARIABLES
  showLanding, currentFrame, isRecording, transcribedAudio, motionData,
  isAnalyzing, loadingText, currentAnalysis, explorationLog, error,
  userQuery, isQuerying, queryResult,
  mediaRecorderRef,
  now,             \* wall clock, ms
  fileReads,       \* image FileReaders still reading: sequence of files
  gumPending,      \* getUserMedia calls not yet settled
  recorders,       \* MediaRecorders created so far, each with its own stream
  transcribing,    \* recorder ids whose clip is being read / transcribed
  analyses,        \* analyzeEnvironment calls in flight (set of requests)
  captionTimers,   \* live setInterval timers of handleAnalyze
  queries,         \* askSenseBridge calls in flight (set of requests)
  motionTimers,    \* pending setTimeout resets, due times in creation order
  issued,          \* counts of calls issued, per kind (bounds the run)
  lastEvent,       \* the handler or callback that ran last
  score, safetyColor, safetyBg   \* rendering of one safety score

uiVars == << showLanding, currentFrame, isRecording, transcribedAudio, motionData,
             isAnalyzing, loadingText, currentAnalysis, explorationLog, error,
             userQuery, isQuerying, queryResult >>
envVars == << mediaRecorderRef, now, fileReads, gumPending, recorders, transcribing,
              analyses, captionTimers, queries, motionTimers >>
bandVars == << score, safetyColor, safetyBg >>
vars == << uiVars, envVars, issued, lastEvent, bandVars >>

\* The state after the first render of App.
InitApp ==
  /\ showLanding = TRUE
  /\ currentFrame = None
  /\ isRecording = FALSE
  /\ transcribedAudio = None
  /\ motionData = INITIAL_MOTION
  /\ isAnalyzing = FALSE
  /\ loadingText = InitialLoadingText
  /\ currentAnalysis = None
  /\ explorationLog = << >>
  /\ error = None
  /\ userQuery = << >>
  /\ isQuerying = FALSE
  /\ queryResult = None
  /\ mediaRecorderRef = 0
  /\ now = 0
  /\ fileReads = << >>
  /\ gumPending = 0
  /\ recorders = << >>
  /\ transcribing = {}
  /\ analyses = {}
  /\ captionTimers = {}
  /\ queries = {}
  /\ motionTimers = << >>
  /\ issued = [analyze |-> 0, ask |-> 0, upload |-> 0, motion |-> 0, gum |-> 0, uuid |-> 0]
  /\ lastEvent = "init"

Init ==
  /\ InitApp
  /\ score = 0
  /\ safetyColor = "none"
  /\ safetyBg = "none"

\* ------------------------------------------------------------------- clock
TimerDues == { t.due : t \in captionTimers } \cup { motionTimers[i] : i \in DOMAIN motionTimers }

\* Time passes; a timer that is due runs before the clock moves past it.
Tick ==
  /\ now < MaxTime
  /\ \A d \in TimerDues : d > now
  /\ now' = IF \E d \in TimerDues : d < now + TickMs
              THEN CHOOSE d \in TimerDues : \A e \in TimerDues : d <= e
              ELSE now + TickMs
  /\ UNCHANGED << uiVars, mediaRecorderRef, fileReads, gumPending, recorders, transcribing,
                  analyses, captionTimers, queries, motionTimers, issued, lastEvent, bandVars >>

\* ----------------------------------------------------------- landing view
\* 0. Launch App (LandingPage onLaunch)
handleLaunch ==
  /\ showLanding
  /\ showLanding' = FALSE
  /\ lastEvent' = "handleLaunch"
  /\ UNCHANGED << currentFrame, isRecording, transcribedAudio, motionData, isAnalyzing,
                  loadingText, currentAnalysis, explorationLog, error, userQuery,
                  isQuerying, queryResult, envVars, issued, bandVars >>

\* Header logo onClick={() => setShowLanding(true)}
ShowLandingClick ==
  /\ ~showLanding
  /\ showLanding' = TRUE
  /\ lastEvent' = "showLanding"
  /\ UNCHANGED << currentFrame, isRecording, transcribedAudio, motionData, isAnalyzing,
                  loadingText, currentAnalysis, explorationLog, error, userQuery,
                  isQuerying, queryResult, envVars, issued, bandVars >>

\* ------------------------------------------------------------ image upload
\* 1. handleImageUpload: a FileReader starts reading the chosen file.
handleImageUpload(file) ==
  /\ ~showLanding
  /\ issued.upload < MaxUploads
  /\ fileReads' = Append(fileReads, file)
  /\ issued' = [issued EXCEPT !.upload = @ + 1]
  /\ lastEvent' = "handleImageUpload"
  /\ UNCHANGED << uiVars, mediaRecorderRef, now, gumPending, recorders, transcribing,
                  analyses, captionTimers, queries, motionTimers, bandVars >>

\* reader.onloadend of the i-th pending read; ok = FALSE is a failed read,
\* for which reader.result is null.
\* Lines 71-73: what the onloadend callback sets, given reader.result.
ImageLoaded_keepsAnalysis(result) ==
  /\ currentFrame' = result
  /\ queryResult' = None
  /\ UNCHANGED currentAnalysis

ImageLoaded(result) ==
  /\ currentFrame' = result
  /\ currentAnalysis' = None
  /\ queryResult' = None

ImageLoadEnd(i, ok) ==
  /\ i \in DOMAIN fileReads
  /\ ImageLoaded(IF ok THEN ReadAsDataURL(fileReads[i]) ELSE None)
  /\ fileReads' = SubSeq(fileReads, 1, i - 1) \o SubSeq(fileReads, i + 1, Len(fileReads))
  /\ lastEvent' = IF ok THEN "imageLoadEnd" ELSE "imageLoadError"
  /\ UNCHANGED << showLanding, isRecording, transcribedAudio, motionData, isAnalyzing,
                  loadingText, explorationLog, error, userQuery, isQuerying,
                  mediaRecorderRef, now, gumPending, recorders, transcribing, analyses,
                  captionTimers, queries, motionTimers, issued, bandVars >>

\* ---------------------------------------------------------------- analysis
\* The analyze button is rendered in the app view and disabled={isAnalyzing}.
AnalyzeButtonEnabled_always == ~showLanding

AnalyzeButtonEnabled == ~showLanding /\ ~isAnalyzing

\* Line 139: neither a frame nor a transcript.
NoInput_never == FALSE

NoInput == ~TruthyFrame(currentFrame) /\ ~TruthyStr(transcribedAudio)

\* The request handleAnalyze sends, with the values its closure captured;
\* startedAt and prior record the time and the display state at the call.
AnalyzeRequest(id) ==
  [ id |-> id,
    imageBase64 |-> IF TruthyFrame(currentFrame) THEN Some(SplitComma2(currentFrame)) ELSE None,
    transcript |-> transcribedAudio,
    motion |-> motionData,
    frame |-> currentFrame,
    startedAt |-> now,
    prior |-> [currentAnalysis |-> currentAnalysis, explorationLog |-> explorationLog,
               queryResult |-> queryResult] ]

\* Lines 143-153, 157: the part of handleAnalyze up to the await.
AnalyzeSend ==
  /\ issued.analyze < MaxAnalyses
  /\ error' = None
  /\ isAnalyzing' = TRUE
  /\ queryResult' = None
  /\ loadingText' = ANALYSIS_STEPS[1]
  /\ captionTimers' = captionTimers \cup
       { [id |-> issued.analyze + 1, due |-> now + StepIntervalMs, stepIndex |-> 0] }
  /\ analyses' = analyses \cup { AnalyzeRequest(issued.analyze + 1) }
  /\ issued' = [issued EXCEPT !.analyze = @ + 1]
  /\ UNCHANGED << currentAnalysis, explorationLog >>

\* Lines 139-142: the validation branch.
AnalyzeRejectInput_send ==
  /\ error' = Some(ValidationError)
  /\ isAnalyzing' = TRUE
  /\ analyses' = analyses \cup { AnalyzeRequest(0) }
  /\ UNCHANGED << queryResult, loadingText, captionTimers, issued,
                  currentAnalysis, explorationLog >>

AnalyzeRejectInput ==
  /\ error' = Some(ValidationError)
  /\ UNCHANGED << isAnalyzing, queryResult, loadingText, captionTimers, analyses, issued,
                  currentAnalysis, explorationLog >>

\* 4. handleAnalyze, from the click to the await (or to the early return).
handleAnalyze ==
  /\ AnalyzeButtonEnabled
  /\ IF NoInput THEN AnalyzeRejectInput ELSE AnalyzeSend
  /\ lastEvent' = IF NoInput THEN "analyzeRejected" ELSE "analyzeSent"
  /\ UNCHANGED << showLanding, currentFrame, isRecording, transcribedAudio, motionData,
                  userQuery, isQuerying, mediaRecorderRef, now, fileReads, gumPending,
                  recorders, transcribing, queries, motionTimers, bandVars >>

\* crypto.randomUUID(): a value no earlier call returned.
RandomUUID_fromClock == now

RandomUUID == issued.uuid + 1

\* Lines 162-168: the history entry built from the result and the closure.
NewLog_current(req, result) ==
  [ safety_score |-> result.safety_score,
    ref |-> result.ref,
    id |-> RandomUUID,
    timestamp |-> ToISOString(now),
    imageFrameUrl |-> currentFrame,
    audioTranscript |-> transcribedAudio ]

NewLog(req, result) ==
  [ safety_score |-> result.safety_score,
    ref |-> result.ref,
    id |-> RandomUUID,
    timestamp |-> ToISOString(now),
    imageFrameUrl |-> req.frame,
    audioTranscript |-> req.transcript ]

\* Line 170: setExplorationLog(prev => [newLog, ...prev])
PrependLog_append(entry, prev) == prev \o << entry >>

PrependLog(entry, prev) == << entry >> \o prev

\* Lines 175-178: finally.
AnalyzeFinally_leak(req) ==
  /\ captionTimers' = captionTimers
  /\ isAnalyzing' = FALSE
  /\ analyses' = analyses \ { req }

AnalyzeFinally_keepsFlag(req) ==
  /\ captionTimers' = { t \in captionTimers : t.id /= req.id }
  /\ isAnalyzing' = isAnalyzing
  /\ analyses' = analyses \ { req }

AnalyzeFinally(req) ==
  /\ captionTimers' = { t \in captionTimers : t.id /= req.id }
  /\ isAnalyzing' = FALSE
  /\ analyses' = analyses \ { req }

\* Lines 159-170: the response is applied whatever the current image is.
AnalyzeApply_ifCurrent(req, result) ==
  IF req.frame = currentFrame
    THEN /\ currentAnalysis' = Some(result)
         /\ explorationLog' = PrependLog(NewLog(req, result), explorationLog)
    ELSE UNCHANGED << currentAnalysis, explorationLog >>

AnalyzeApply(req, result) ==
  /\ currentAnalysis' = Some(result)
  /\ explorationLog' = PrependLog(NewLog(req, result), explorationLog)

\* The awaited analyzeEnvironment call resolves with a result (lines 157-170).
AnalyzeResolve(req, s) ==
  /\ req \in analyses
  /\ AnalyzeApply(req, [safety_score |-> s, ref |-> req.id])
  /\ AnalyzeFinally(req)
  /\ issued' = [issued EXCEPT !.uuid = @ + 1]
  /\ lastEvent' = "analyzeResolved"
  /\ UNCHANGED << showLanding, currentFrame, isRecording, transcribedAudio, motionData,
                  loadingText, error, userQuery, isQuerying, queryResult,
                  mediaRecorderRef, now, fileReads, gumPending, recorders, transcribing,
                  queries, motionTimers, bandVars >>

\* Lines 172-174: what the catch block sets.
AnalyzeCatch ==
  /\ error' = Some(AnalysisFailedError)
  /\ UNCHANGED << currentAnalysis, explorationLog, queryResult >>

\* The awaited call rejects (lines 172-178).
AnalyzeReject(req) ==
  /\ req \in analyses
  /\ AnalyzeCatch
  /\ AnalyzeFinally(req)
  /\ lastEvent' = "analyzeFailed"
  /\ UNCHANGED << showLanding, currentFrame, isRecording, transcribedAudio, motionData,
                  loadingText, userQuery, isQuerying,
                  mediaRecorderRef, now, fileReads, gumPending, recorders, transcribing,
                  queries, motionTimers, issued, bandVars >>

\* The setInterval callback (lines 150-153).
CaptionTick(t) ==
  /\ t \in captionTimers
  /\ t.due <= now
  /\ LET next == (t.stepIndex + 1) % Len(ANALYSIS_STEPS) IN
       /\ loadingText' = ANALYSIS_STEPS[next + 1]
       /\ captionTimers' = (captionTimers \ { t }) \cup
            { [t EXCEPT !.due = @ + StepIntervalMs, !.stepIndex = next] }
  /\ lastEvent' = "captionTick"
  /\ UNCHANGED << showLanding, currentFrame, isRecording, transcribedAudio, motionData,
                  isAnalyzing, currentAnalysis, explorationLog, error, userQuery,
                  isQuerying, queryResult, mediaRecorderRef, now, fileReads, gumPending,
                  recorders, transcribing, analyses, queries, motionTimers, issued, bandVars >>

\* ------------------------------------------------------------------- query
\* The question row is rendered when no answer is shown (line 448); the text
\* field is disabled={!currentAnalysis} (line 468).
QueryInputUsable == ~showLanding /\ queryResult = None /\ currentAnalysis /= None

\* Line 474: disabled={!currentAnalysis || isQuerying || !userQuery.trim()}
SendButtonEnabled ==
  /\ ~showLanding /\ queryResult = None
  /\ ~(currentAnalysis = None \/ isQuerying \/ Trim(userQuery) = << >>)

\* onChange of the question field (line 466).
SetUserQuery(q) ==
  /\ QueryInputUsable
  /\ userQuery /= q
  /\ userQuery' = q
  /\ lastEvent' = "setUserQuery"
  /\ UNCHANGED << showLanding, currentFrame, isRecording, transcribedAudio, motionData,
                  isAnalyzing, loadingText, currentAnalysis, explorationLog, error,
                  isQuerying, queryResult, envVars, issued, bandVars >>

\* Line 183: the early return of handleAsk.
AskSkipped_analysisOnly == currentAnalysis = None

AskSkipped == currentAnalysis = None \/ Trim(userQuery) = << >>

\* 5. handleAsk, from the call to the await (lines 182-186).
handleAsk ==
  /\ IF AskSkipped
       THEN UNCHANGED << isQuerying, queries, issued >>
       ELSE /\ issued.ask < MaxQueries
            /\ isQuerying' = TRUE
            /\ queries' = queries \cup
                 { [id |-> issued.ask + 1, question |-> userQuery, context |-> currentAnalysis[1]] }
            /\ issued' = [issued EXCEPT !.ask = @ + 1]
  /\ lastEvent' = IF AskSkipped THEN "askSkipped" ELSE "askSent"
  /\ UNCHANGED << showLanding, currentFrame, isRecording, transcribedAudio, motionData,
                  isAnalyzing, loadingText, currentAnalysis, explorationLog, error,
                  userQuery, queryResult, mediaRecorderRef, now, fileReads, gumPending,
                  recorders, transcribing, analyses, captionTimers, motionTimers, bandVars >>

\* Send button onClick (line 473).
AskClick == SendButtonEnabled /\ handleAsk

\* onKeyDown of the question field with key 'Enter' (line 470).
AskEnter == QueryInputUsable /\ handleAsk

\* The awaited askSenseBridge call resolves (lines 186-187, 190-192).
AskResolve(q) ==
  /\ q \in queries
  /\ queryResult' = Some([answer |-> q.question, reasoning |-> q.context.ref])
  /\ isQuerying' = FALSE
  /\ queries' = queries \ { q }
  /\ lastEvent' = "askResolved"
  /\ UNCHANGED << showLanding, currentFrame, isRecording, transcribedAudio, motionData,
                  isAnalyzing, loadingText, currentAnalysis, explorationLog, error,
                  userQuery, mediaRecorderRef, now, fileReads, gumPending, recorders,
                  transcribing, analyses, captionTimers, motionTimers, issued, bandVars >>

\* Lines 188-189: the catch block only writes to the console.
AskCatch_surfacesError ==
  /\ error' = Some(AnalysisFailedError)
  /\ UNCHANGED queryResult

AskCatch == UNCHANGED << queryResult, error >>

\* The awaited call rejects (lines 188-192).
AskReject(q) ==
  /\ q \in queries
  /\ AskCatch
  /\ isQuerying' = FALSE
  /\ queries' = queries \ { q }
  /\ lastEvent' = "askFailed"
  /\ UNCHANGED << showLanding, currentFrame, isRecording, transcribedAudio, motionData,
                  isAnalyzing, loadingText, currentAnalysis, explorationLog,
                  userQuery, mediaRecorderRef, now, fileReads, gumPending,
                  recorders, transcribing, analyses, captionTimers, motionTimers, issued, bandVars >>

\* "Ask another question" (line 459).
ClearQueryResult ==
  /\ ~showLanding
  /\ queryResult /= None
  /\ queryResult' = None
  /\ lastEvent' = "clearQueryResult"
  /\ UNCHANGED << showLanding, currentFrame, isRecording, transcribedAudio, motionData,
                  isAnalyzing, loadingText, currentAnalysis, explorationLog, error,
                  userQuery, isQuerying, envVars, issued, bandVars >>

\* ------------------------------------------------------------------ motion
\* 3. simulateMotion (lines 118-135).
simulateMotion(r1, r2, r3, r4, r5, r6) ==
  /\ ~showLanding
  /\ issued.motion < MaxTriggers
  /\ motionData' = NewMotion(r1, r2, r3, r4, r5, r6)
  /\ motionTimers' = Append(motionTimers, now + MotionResetDelay)
  /\ issued' = [issued EXCEPT !.motion = @ + 1]
  /\ lastEvent' = "simulateMotion"
  /\ UNCHANGED << showLanding, currentFrame, isRecording, transcribedAudio, isAnalyzing,
                  loadingText, currentAnalysis, explorationLog, error, userQuery,
                  isQuerying, queryResult, mediaRecorderRef, now, fileReads, gumPending,
                  recorders, transcribing, analyses, captionTimers, queries, bandVars >>

\* The setTimeout callback of line 134; timers of equal delay run in the
\* order they were set.
MotionReset_keepsReading ==
  /\ motionTimers /= << >>
  /\ Head(motionTimers) <= now
  /\ motionData' = motionData
  /\ motionTimers' = Tail(motionTimers)
  /\ lastEvent' = "motionReset"
  /\ UNCHANGED << showLanding, currentFrame, isRecording, transcribedAudio, isAnalyzing,
                  loadingText, currentAnalysis, explorationLog, error, userQuery,
                  isQuerying, queryResult, mediaRecorderRef, now, fileReads, gumPending,
                  recorders, transcribing, analyses, captionTimers, queries, issued, bandVars >>

MotionReset ==
  /\ motionTimers /= << >>
  /\ Head(motionTimers) <= now
  /\ motionData' = INITIAL_MOTION
  /\ motionTimers' = Tail(motionTimers)
  /\ lastEvent' = "motionReset"
  /\ UNCHANGED << showLanding, currentFrame, isRecording, transcribedAudio, isAnalyzing,
                  loadingText, currentAnalysis, explorationLog, error, userQuery,
                  isQuerying, queryResult, mediaRecorderRef, now, fileReads, gumPending,
                  recorders, transcribing, analyses, captionTimers, queries, issued, bandVars >>

\* --------------------------------------------------------------- recording
\* What transcribeAudio answers for the clip of recorder id: its words, or
\* nothing when no speech was recognised.
ClipTexts == << "one", "two", "three", "four" >>

\* The record button shows "Record" and runs startRecording when not recording.
RecordButtonStarts == ~showLanding /\ ~isRecording

\* 2. startRecording up to the await of getUserMedia (lines 81-83).
startRecording ==
  /\ RecordButtonStarts
  /\ issued.gum < MaxStreams
  /\ gumPending' = gumPending + 1
  /\ issued' = [issued EXCEPT !.gum = @ + 1]
  /\ lastEvent' = "startRecording"
  /\ UNCHANGED << uiVars, mediaRecorderRef, now, fileReads, recorders, transcribing,
                  analyses, captionTimers, queries, motionTimers, bandVars >>

\* getUserMedia resolves with a new stream (lines 84-104): a new recorder on
\* that stream replaces the one in the ref and starts recording.
GumResolve ==
  /\ gumPending > 0
  /\ gumPending' = gumPending - 1
  /\ recorders' = Append(recorders, [state |-> "recording", tracks |-> "live", stopEvent |-> FALSE])
  /\ mediaRecorderRef' = Len(recorders) + 1
  /\ isRecording' = TRUE
  /\ lastEvent' = "gumResolved"
  /\ UNCHANGED << showLanding, currentFrame, transcribedAudio, motionData, isAnalyzing,
                  loadingText, currentAnalysis, explorationLog, error, userQuery,
                  isQuerying, queryResult, now, fileReads, transcribing, analyses,
                  captionTimers, queries, motionTimers, issued, bandVars >>

\* getUserMedia rejects (lines 105-107).
GumReject_setsRecording ==
  /\ gumPending > 0
  /\ gumPending' = gumPending - 1
  /\ error' = Some(MicDeniedError)
  /\ isRecording' = TRUE
  /\ lastEvent' = "gumRejected"
  /\ UNCHANGED << showLanding, currentFrame, transcribedAudio, motionData,
                  isAnalyzing, loadingText, currentAnalysis, explorationLog, userQuery,
                  isQuerying, queryResult, mediaRecorderRef, now, fileReads, recorders,
                  transcribing, analyses, captionTimers, queries, motionTimers, issued, bandVars >>

GumReject ==
  /\ gumPending > 0
  /\ gumPending' = gumPending - 1
  /\ error' = Some(MicDeniedError)
  /\ lastEvent' = "gumRejected"
  /\ UNCHANGED << showLanding, currentFrame, isRecording, transcribedAudio, motionData,
                  isAnalyzing, loadingText, currentAnalysis, explorationLog, userQuery,
                  isQuerying, queryResult, mediaRecorderRef, now, fileReads, recorders,
                  transcribing, analyses, captionTimers, queries, motionTimers, issued, bandVars >>

\* Line 111: the recorder in the ref exists and is recording.
RefIsRecording == mediaRecorderRef /= 0 /\ recorders[mediaRecorderRef].state = "recording"

\* stopRecording (lines 110-115); the button shows "Stop" while recording.
\* MediaRecorder.stop() makes the recorder inactive and queues its stop event.
stopRecording ==
  /\ ~showLanding
  /\ isRecording
  /\ IF RefIsRecording
       THEN /\ recorders' = [recorders EXCEPT ![mediaRecorderRef] =
                               [@ EXCEPT !.state = "inactive", !.stopEvent = TRUE]]
            /\ isRecording' = FALSE
       ELSE UNCHANGED << recorders, isRecording >>
  /\ lastEvent' = "stopRecording"
  /\ UNCHANGED << showLanding, currentFrame, transcribedAudio, motionData, isAnalyzing,
                  loadingText, currentAnalysis, explorationLog, error, userQuery,
                  isQuerying, queryResult, mediaRecorderRef, now, fileReads, gumPending,
                  transcribing, analyses, captionTimers, queries, motionTimers, issued, bandVars >>

\* Line 100: stream.getTracks().forEach(track => track.stop())
StopTracks(rec) == [rec EXCEPT !.tracks = "stopped"]

\* The recorder's onstop handler (lines 91-101): the clip goes to a
\* FileReader and then to transcribeAudio; the stream's tracks are stopped.
RecorderOnStop(id) ==
  /\ id \in DOMAIN recorders
  /\ recorders[id].stopEvent
  /\ recorders' = [recorders EXCEPT ![id] = [StopTracks(@) EXCEPT !.stopEvent = FALSE]]
  /\ transcribing' = transcribing \cup { id }
  /\ lastEvent' = "recorderOnStop"
  /\ UNCHANGED << uiVars, mediaRecorderRef, now, fileReads, gumPending, analyses,
                  captionTimers, queries, motionTimers, issued, bandVars >>

\* The clip's transcribeAudio call resolves (lines 97-98).
TranscribeResolve(id, heard) ==
  /\ id \in transcribing
  /\ transcribing' = transcribing \ { id }
  /\ transcribedAudio' = Some(IF heard THEN ClipTexts[id] ELSE "")
  /\ lastEvent' = "transcribeResolved"
  /\ UNCHANGED << showLanding, currentFrame, isRecording, motionData, isAnalyzing,
                  loadingText, currentAnalysis, explorationLog, error, userQuery,
                  isQuerying, queryResult, mediaRecorderRef, now, fileReads, gumPending,
                  recorders, analyses, captionTimers, queries, motionTimers, issued, bandVars >>

\* The call rejects: the rejection is unhandled and no state is set.
TranscribeReject(id) ==
  /\ id \in transcribing
  /\ transcribing' = transcribing \ { id }
  /\ lastEvent' = "transcribeFailed"
  /\ UNCHANGED << uiVars, mediaRecorderRef, now, fileReads, gumPending, recorders,
                  analyses, captionTimers, queries, motionTimers, issued, bandVars >>

\* ------------------------------------------------------------ safety bands
\* Lines 351-353: both helpers applied to one score.
RenderSafety ==
  /\ safetyColor = "none"
  /\ safetyColor' = getSafetyColor(score)
  /\ safetyBg' = getSafetyBg(score)
  /\ lastEvent' = "renderSafety"
  /\ UNCHANGED << uiVars, envVars, issued, score >>

\* Lines 208-210, 331, 351-353: the band the safety badge of the displayed
\* analysis shows; no badge is rendered on the landing page or without an
\* analysis.
DisplayedBand ==
  IF showLanding \/ currentAnalysis = None THEN "none"
  ELSE BandOf(getSafetyColor(currentAnalysis[1].safety_score))

\* ---------------------------------------------------------- specifications
ClockStep == Tick

LandingStep == handleLaunch \/ ShowLandingClick

UploadStep ==
  \/ \E f \in Files : handleImageUpload(f)
  \/ \E i \in 1 .. MaxUploads, ok \in BOOLEAN : ImageLoadEnd(i, ok)

AnalysisStep ==
  \/ handleAnalyze
  \/ \E req \in analyses, s \in Scores : AnalyzeResolve(req, s)
  \/ \E req \in analyses : AnalyzeReject(req)
  \/ \E t \in captionTimers : CaptionTick(t)

QueryStep ==
  \/ \E q \in QueryTexts : SetUserQuery(q)
  \/ AskClick
  \/ AskEnter
  \/ \E q \in queries : AskResolve(q)
  \/ \E q \in queries : AskReject(q)
  \/ ClearQueryResult

MotionStep ==
  \/ \E r1 \in RandomSamples, r2 \in RandomSamples, r3 \in RandomSamples,
        r4 \in RandomSamples, r5 \in RandomSamples, r6 \in RandomSamples :
       simulateMotion(r1, r2, r3, r4, r5, r6)
  \/ MotionReset

RecordingStep ==
  \/ startRecording
  \/ GumResolve
  \/ GumReject
  \/ stopRecording
  \/ \E id \in 1 .. MaxStreams : RecorderOnStop(id)
  \/ \E id \in transcribing, heard \in BOOLEAN : TranscribeResolve(id, heard)
  \/ \E id \in transcribing : TranscribeReject(id)

\* Operations the user has started so far.
OpsIssued == issued.analyze + issued.ask + issued.upload + issued.motion + issued.gum

\* Runs are explored up to a number of started operations.
WithinBudget == OpsIssued <= MaxOps

WithinSession == OpsIssued <= MaxSessionOps

\* The whole application, for sessions of at most MaxSessionOps started
\* operations. Motion is simulated with one fixed series of draws here.
Next ==
  \/ ClockStep
  \/ LandingStep
  \/ UploadStep /\ WithinSession'
  \/ AnalysisStep /\ WithinSession'
  \/ QueryStep /\ WithinSession'
  \/ simulateMotion(0, 999, 0, 999, 0, 999) /\ WithinSession'
  \/ MotionReset
  \/ RecordingStep /\ WithinSession'

Spec == Init /\ [][Next]_vars

\* The analysis and query panels, with image upload.
NextAnalysis ==
  \/ ClockStep
  \/ LandingStep
  \/ UploadStep /\ WithinBudget'
  \/ AnalysisStep /\ WithinBudget'
  \/ QueryStep /\ WithinBudget'

SpecAnalysis == Init /\ [][NextAnalysis]_vars

\* The motion simulator.
NextMotion == ClockStep \/ LandingStep \/ MotionStep

SpecMotion == Init /\ [][NextMotion]_vars

\* The audio sensor.
NextRecording == LandingStep \/ RecordingStep

SpecRecording == Init /\ [][NextRecording]_vars

\* The safety-band helpers over every score.
InitBand ==
  /\ InitApp
  /\ score \in 0 .. 100
  /\ safetyColor = "none"
  /\ safetyBg = "none"

SpecBand == InitBand /\ [][RenderSafety]_vars

\* The analysis and query panels without the clock, under the assumption that
\* every analyzeEnvironment and askSenseBridge call eventually settles: the
\* continuation after each await runs once its promise is resolved or rejected.
SettleAnalysis ==
  \/ \E req \in analyses, s \in Scores : AnalyzeResolve(req, s)
  \/ \E req \in analyses : AnalyzeReject(req)

SettleQuery ==
  \/ \E q \in queries : AskResolve(q)
  \/ \E q \in queries : AskReject(q)

NextLive ==
  \/ LandingStep
  \/ UploadStep /\ WithinBudget'
  \/ handleAnalyze /\ WithinBudget'
  \/ SettleAnalysis
  \/ (\E q \in QueryTexts : SetUserQuery(q)) /\ WithinBudget'
  \/ AskClick /\ WithinBudget'
  \/ AskEnter /\ WithinBudget'
  \/ SettleQuery
  \/ ClearQueryResult

SpecLive ==
  /\ Init
  /\ [][NextLive]_vars
  /\ WF_vars(SettleAnalysis)
  /\ WF_vars(SettleQuery)

\* ================================================================== claims
\* A step in which the named handler or callback ran.
Ran(events) == lastEvent' \in events /\ now' = now

\* The request that settles in this step, as a set (empty when none does).
Settled == analyses \ analyses'

IsSorted(log) ==
  \A i \in 1 .. Len(log) - 1 : LexLeq(log[i + 1].timestamp, log[i].timestamp)

LogIds(log) == { log[i].id : i \in DOMAIN log }

WhitespaceOnly(q) == \A i \in DOMAIN q : q[i] \in WhiteSpace

\* C1: when neither an image nor a transcript is present, the analyze action
\* issues no analyzeEnvironment call, sets the error to the validation
\* message and leaves the current analysis, the query result, the history,
\* the analyzing flag and the caption timer as they were.
C1_RejectsWithoutInput ==
  [][ ( /\ Ran({"analyzeRejected", "analyzeSent"})
        /\ currentFrame = None
        /\ transcribedAudio \in {None, Some("")} )
      => /\ analyses' = analyses
         /\ issued'.analyze = issued.analyze
         /\ error' = Some(ValidationError)
         /\ UNCHANGED << currentAnalysis, queryResult, explorationLog, isAnalyzing,
                         captionTimers, loadingText >> ]_vars

C1_Witness ==
  /\ lastEvent = "analyzeRejected"
  /\ error = Some(ValidationError)
  /\ currentFrame = None
  /\ explorationLog /= << >>
  /\ currentAnalysis /= None

\* C2: a successful analysis sets the current analysis to the returned
\* result and prepends exactly one history entry for it, whose id is not the
\* id of any earlier entry and whose timestamp is not earlier than the time
\* the request was started.
C2_SuccessRecordsResult ==
  [][ \A req \in Settled : lastEvent' = "analyzeResolved" =>
        /\ currentAnalysis' /= None
        /\ currentAnalysis'[1].ref = req.id
        /\ Len(explorationLog') = Len(explorationLog) + 1
        /\ Tail(explorationLog') = explorationLog
        /\ Head(explorationLog').safety_score = currentAnalysis'[1].safety_score
        /\ Head(explorationLog').ref = req.id
        /\ Head(explorationLog').id \notin LogIds(explorationLog)
        /\ LexLeq(ToISOString(req.startedAt), Head(explorationLog').timestamp) ]_vars

C2_Witness ==
  /\ lastEvent = "analyzeResolved"
  /\ Len(explorationLog) = 2
  /\ explorationLog[1].id /= explorationLog[2].id
  /\ explorationLog[1].timestamp = explorationLog[2].timestamp
  /\ currentAnalysis = Some([safety_score |-> explorationLog[1].safety_score,
                             ref |-> explorationLog[1].ref])

\* C3: the history changes only when an analysis succeeds, and then the new
\* entry is put in front of the unchanged previous history; timestamps never
\* increase from head to tail. No other step (upload, recording, motion,
\* query, failed or rejected analysis, landing toggle) changes the history.
C3_HistoryAppendOnly ==
  [][ /\ explorationLog' /= explorationLog =>
           /\ lastEvent' = "analyzeResolved"
           /\ Len(explorationLog') = Len(explorationLog) + 1
           /\ Tail(explorationLog') = explorationLog
      /\ IsSorted(explorationLog') ]_vars

C3_Witness ==
  /\ Len(explorationLog) = 2
  /\ explorationLog[1].timestamp /= explorationLog[2].timestamp
  /\ lastEvent \in {"motionReset", "transcribeResolved", "analyzeRejected", "askResolved",
                    "imageLoadEnd", "imageLoadError", "handleLaunch", "analyzeFailed"}

\* The display is as handleAnalyze left it when it sent req: no other
\* handler has changed the current analysis, the history or the query result
\* since (sending cleared the query result, line 145).
DisplayAsSent(req) ==
  /\ currentAnalysis = req.prior.currentAnalysis
  /\ explorationLog = req.prior.explorationLog
  /\ queryResult = None

\* C4: when an analyzeEnvironment call fails, the error is the generic
\* message, the analyzing flag is cleared, and the current analysis, the
\* history and the query result are the same as before the analyze action
\* was invoked.
C4_FailureRestoresAll ==
  [][ \A req \in Settled :
        lastEvent' = "analyzeFailed" /\ DisplayAsSent(req)
          => /\ error' = Some(AnalysisFailedError)
             /\ ~isAnalyzing'
             /\ currentAnalysis' = req.prior.currentAnalysis
             /\ explorationLog' = req.prior.explorationLog
             /\ queryResult' = req.prior.queryResult ]_vars

\* C5: at most one askSenseBridge call is in flight at any time.
C5_OneQueryInFlight == Cardinality(queries) <= 1

\* C6: at most one analyzeEnvironment call is in flight at any time, and the
\* analyzing flag is true exactly while one is.
C6_OneAnalysisInFlight ==
  /\ Cardinality(analyses) <= 1
  /\ isAnalyzing <=> analyses /= {}

C6_Witness == isAnalyzing /\ Cardinality(analyses) = 1 /\ issued.analyze = 2

\* C7: after a trigger the reading is not the baseline until the delay of
\* the most recent trigger has elapsed; the reset timer of an earlier trigger
\* does not revert it.
C7_LastTriggerWins ==
  (motionTimers /= << >> /\ now < motionTimers[Len(motionTimers)])
    => motionData /= INITIAL_MOTION

\* C8: whenever no recording is active and no stop event is still to be
\* delivered, every microphone stream acquired so far has its tracks stopped.
C8_MicReleased ==
  (~isRecording /\ \A id \in DOMAIN recorders : ~recorders[id].stopEvent)
    => \A id \in DOMAIN recorders : recorders[id].tracks = "stopped"

\* C9: when the question is empty or whitespace-only, or there is no current
\* analysis, the query action issues no askSenseBridge call and changes
\* nothing: not the querying flag, the query result, the error, or any other
\* state of the application.
C9_AskNoOp ==
  [][ ( /\ Ran({"askSkipped", "askSent"})
        /\ (currentAnalysis = None \/ WhitespaceOnly(userQuery)) )
      => UNCHANGED << uiVars, envVars, issued >> ]_vars

C9_Witness ==
  /\ lastEvent = "askSkipped"
  /\ userQuery = << 32, 160 >>
  /\ currentAnalysis /= None
  /\ queries = {}
  /\ ~isQuerying

\* C10: over the integer scores 0..100 the band is decided by the score
\* alone: 80..100 renders emerald, 50..79 yellow, 0..49 red, and the text
\* colour and the background always name the same band.
C10_BandsByScore ==
  safetyColor /= "none" =>
    /\ score \in 0 .. 100
    /\ (score >= 80) => BandOf(safetyColor) = "emerald"
    /\ (score >= 50 /\ score < 80) => BandOf(safetyColor) = "yellow"
    /\ (score < 50) => BandOf(safetyColor) = "red"
    /\ BandOf(safetyBg) = BandOf(safetyColor)

C10_Witness == score = 80 /\ safetyColor = "text-emerald-400" /\ BandOf(safetyBg) = "emerald"

\* The request sent in this step, as a set (empty when none is).
Sent == analyses' \ analyses

\* The scenario of C11: an image, no transcript, the baseline motion reading.
ImageOnlyAtBaseline(frame, transcript, motion) ==
  frame /= None /\ transcript = None /\ motion = INITIAL_MOTION

\* The call analyzeEnvironment(payload, null, baseline) and its one new entry.
C11_CallAndEntry ==
  /\ Ran({"analyzeSent"}) /\ ImageOnlyAtBaseline(currentFrame, transcribedAudio, motionData)
       => /\ Cardinality(Sent) = 1
          /\ \A req \in Sent :
               /\ req.imageBase64 = Some(currentFrame[2])
               /\ req.transcript = None
               /\ req.motion = INITIAL_MOTION
  /\ \A req \in Settled :
       Ran({"analyzeResolved"}) /\ ImageOnlyAtBaseline(req.frame, req.transcript, req.motion)
         => Len(explorationLog') = Len(explorationLog) + 1

\* A settled request of the scenario answered with safety_score = 42.
Scored42(req) ==
  /\ Ran({"analyzeResolved"})
  /\ ImageOnlyAtBaseline(req.frame, req.transcript, req.motion)
  /\ currentAnalysis'[1].safety_score = 42

\* C11 as stated: with an image, no transcript and the baseline reading,
\* analyzeEnvironment is called with (payload, null, baseline); a success with
\* safety_score = 42 shows, in the app view, the cautionary (yellow) band and
\* appends one entry.
C11_Score42Cautionary ==
  [][ /\ C11_CallAndEntry
      /\ \A req \in Settled :
           Scored42(req) /\ ~showLanding' => DisplayedBand' = "yellow" ]_vars

\* C11 amended: the same call and the same single new entry, but the score
\* 42 is below 50 and shows the unfavorable (red) band in the app view (and
\* no badge while the landing page is shown).
C11_Score42Unfavorable ==
  [][ /\ C11_CallAndEntry
      /\ \A req \in Settled :
           Scored42(req) => DisplayedBand' = IF showLanding' THEN "none" ELSE "red" ]_vars

C11_Witness ==
  /\ lastEvent = "analyzeResolved"
  /\ currentFrame /= None /\ transcribedAudio = None /\ motionData = INITIAL_MOTION
  /\ currentAnalysis /= None /\ currentAnalysis[1].safety_score = 42
  /\ Len(explorationLog) = 1
  /\ explorationLog[1].imageFrameUrl = currentFrame
  /\ DisplayedBand = "red"

\* C12: when an analysis request settles, on success and on failure, its
\* interval timer is cancelled and the analyzing flag is cleared; with no
\* analysis in flight there is no live caption timer and the caption stays.
C12_CaptionTornDown ==
  [][ /\ \A req \in Settled :
           Ran({"analyzeResolved", "analyzeFailed"})
             => /\ \A t \in captionTimers' : t.id /= req.id
                /\ ~isAnalyzing'
      /\ analyses' = {} => captionTimers' = {}
      /\ analyses = {} /\ analyses' = {} => loadingText' = loadingText ]_vars

C12_Witness ==
  /\ lastEvent = "analyzeFailed"
  /\ analyses = {} /\ captionTimers = {} /\ ~isAnalyzing
  /\ loadingText = ANALYSIS_STEPS[2]

\* C13: when an askSenseBridge call fails, the query result, the error, the
\* current analysis and the history stay as they are and the querying flag
\* is cleared.
C13_AskFailureSilent ==
  [][ Ran({"askFailed"}) /\ queries' /= queries
        => /\ queryResult' = queryResult
           /\ error' = error
           /\ currentAnalysis' = currentAnalysis
           /\ explorationLog' = explorationLog
           /\ ~isQuerying' ]_vars

C13_Witness ==
  /\ lastEvent = "askFailed"
  /\ ~isQuerying /\ queries = {}
  /\ queryResult = None
  /\ error = Some(AnalysisFailedError)
  /\ currentAnalysis /= None /\ explorationLog /= << >>

\* The pending reads left when the i-th one completes.
WithoutRead(reads, i) == SubSeq(reads, 1, i - 1) \o SubSeq(reads, i + 1, Len(reads))

\* What a completed image read leaves alone and what it clears.
UploadClearsDisplay ==
  /\ currentAnalysis' = None
  /\ queryResult' = None
  /\ transcribedAudio' = transcribedAudio
  /\ motionData' = motionData
  /\ explorationLog' = explorationLog
  /\ error' = error

\* C14 as stated: whenever an image read completes, the current image is
\* replaced by the new one, the current analysis and the query result are
\* cleared, and the transcript, the motion reading, the history and the error
\* are unchanged.
C14_UploadAlwaysReplaces ==
  [][ Ran({"imageLoadEnd", "imageLoadError"})
        => /\ \E i \in DOMAIN fileReads :
                /\ fileReads' = WithoutRead(fileReads, i)
                /\ currentFrame' = ReadAsDataURL(fileReads[i])
           /\ UploadClearsDisplay ]_vars

\* C14 amended: a read that succeeds replaces the current image by the new
\* file's data URL; a read that ends in an error leaves no current image
\* (reader.result is null). Either way the current analysis and the query
\* result are cleared and transcript, motion reading, history and error are
\* unchanged.
C14_UploadReplacesImage ==
  [][ /\ Ran({"imageLoadEnd"})
           => /\ \E i \in DOMAIN fileReads :
                   /\ fileReads' = WithoutRead(fileReads, i)
                   /\ currentFrame' = ReadAsDataURL(fileReads[i])
              /\ UploadClearsDisplay
      /\ Ran({"imageLoadError"})
           => /\ \E i \in DOMAIN fileReads : fileReads' = WithoutRead(fileReads, i)
              /\ currentFrame' = None
              /\ UploadClearsDisplay ]_vars

C14_Witness ==
  /\ lastEvent = "imageLoadEnd"
  /\ currentFrame = ReadAsDataURL("imgB")
  /\ explorationLog /= << >>
  /\ explorationLog[1].imageFrameUrl = ReadAsDataURL("imgA")
  /\ currentAnalysis = None /\ queryResult = None

\* A history entry that snapshots an image or a transcript.
HasInput(entry) == entry.imageFrameUrl /= None \/ entry.audioTranscript /= None

\* C15: every request in flight, every history entry and the displayed
\* analysis come from a request that had an image or a transcript; every
\* history entry has a non-null image snapshot or a non-null transcript snapshot.
C15_ResultsHaveInput ==
  /\ \A req \in analyses : req.imageBase64 /= None \/ req.transcript /= None
  /\ \A i \in DOMAIN explorationLog : HasInput(explorationLog[i])
  /\ currentAnalysis /= None
       => \E i \in DOMAIN explorationLog :
            /\ explorationLog[i].ref = currentAnalysis[1].ref
            /\ HasInput(explorationLog[i])

C15_Witness ==
  /\ lastEvent = "analyzeResolved"
  /\ currentAnalysis /= None
  /\ Len(explorationLog) = 1
  /\ explorationLog[1].imageFrameUrl = None
  /\ explorationLog[1].audioTranscript /= None

\* The microphone streams with a live track.
LiveStreams(recs) == { i \in DOMAIN recs : recs[i].tracks = "live" }

\* C16: when getUserMedia rejects, the error becomes "Microphone access
\* denied."; the rejected call sets no recording flag and acquires no stream
\* (the flag stays false and no stream is held unless another start was
\* granted); transcript, image, current analysis and history are unchanged.
C16_MicDenied ==
  [][ Ran({"gumRejected"})
        => /\ error' = Some(MicDeniedError)
           /\ isRecording' = isRecording
           /\ recorders' = recorders
           /\ mediaRecorderRef' = mediaRecorderRef
           /\ ~isRecording /\ LiveStreams(recorders) = {}
                => ~isRecording' /\ LiveStreams(recorders') = {}
           /\ transcribedAudio' = transcribedAudio
           /\ currentFrame' = currentFrame
           /\ currentAnalysis' = currentAnalysis
           /\ explorationLog' = explorationLog ]_vars

C16_Witness ==
  /\ lastEvent = "gumRejected"
  /\ error = Some(MicDeniedError)
  /\ ~isRecording /\ recorders = << >> /\ gumPending = 0
  /\ currentFrame /= None /\ currentAnalysis /= None /\ explorationLog /= << >>

\* C17: an in-flight analysis is not cancelled. An image read that completes
\* while a request is outstanding leaves the request, its timer and the
\* analyzing flag alone, and the response that arrives later is displayed
\* even though it was produced from an image other than the current one.
C17_StaleResponseApplied ==
  [][ /\ Ran({"imageLoadEnd", "imageLoadError"})
           => /\ analyses' = analyses
              /\ captionTimers' = captionTimers
              /\ isAnalyzing' = isAnalyzing
      /\ \A req \in Settled :
           Ran({"analyzeResolved"}) /\ req.frame /= currentFrame
             => /\ currentAnalysis' /= None
                /\ currentAnalysis'[1].ref = req.id
                /\ currentFrame' = currentFrame ]_vars

\* A displayed analysis whose request carried another image than the current one.
C17_Witness ==
  /\ issued.upload = 2
  /\ currentFrame /= None /\ currentAnalysis /= None
  /\ \E i \in DOMAIN explorationLog :
       /\ explorationLog[i].ref = currentAnalysis[1].ref
       /\ explorationLog[i].imageFrameUrl /= None
       /\ explorationLog[i].imageFrameUrl /= currentFrame

\* C18: the history entry of a completed analysis snapshots the image and the
\* transcript captured when analyze was invoked, the ones sent in the
\* request, not the values current when the response arrives.
C18_EntrySnapshotsRequest ==
  [][ \A req \in Settled :
        Ran({"analyzeResolved"})
          => /\ explorationLog' /= << >>
             /\ Head(explorationLog').imageFrameUrl = req.frame
             /\ req.frame /= None
                  => Some(Head(explorationLog').imageFrameUrl[2]) = req.imageBase64
             /\ req.frame = None => req.imageBase64 = None
             /\ Head(explorationLog').audioTranscript = req.transcript ]_vars

\* An entry whose transcript snapshot differs from the transcript now current.
C18_Witness ==
  /\ lastEvent = "analyzeResolved"
  /\ transcribedAudio /= None
  /\ explorationLog /= << >>
  /\ explorationLog[1].audioTranscript = None
  /\ explorationLog[1].imageFrameUrl = currentFrame

\* Ids of the calls in flight.
AnalysisIds == { req.id : req \in analyses }

QueryIds == { q.id : q \in queries }

\* C19: if every external call eventually settles, every started analysis
\* eventually has settled with isAnalyzing cleared, and every started query
\* eventually has settled with isQuerying cleared.
C19_FlagsEventuallyCleared ==
  /\ \A k \in 1 .. MaxAnalyses :
       (k \in AnalysisIds) ~> (k \notin AnalysisIds /\ ~isAnalyzing)
  /\ \A k \in 1 .. MaxQueries :
       (k \in QueryIds) ~> (k \notin QueryIds /\ ~isQuerying)
  /\ isAnalyzing ~> ~isAnalyzing
  /\ isQuerying ~> ~isQuerying

C19_Witness ==
  /\ lastEvent = "askFailed"
  /\ issued.analyze = 2 /\ issued.ask = 1
  /\ analyses = {} /\ queries = {}
  /\ ~isAnalyzing /\ ~isQuerying

\* C20: once every pending reset timer has fired the reading is exactly the
\* baseline, and it leaves the baseline only by a new trigger; a reset timer
\* that fires sets the baseline and changes no other state of the application.
C20_ResetsToBaseline ==
  [][ /\ motionTimers' = << >> => motionData' = INITIAL_MOTION
      /\ motionData = INITIAL_MOTION /\ motionData' /= INITIAL_MOTION
           => Ran({"simulateMotion"})
      /\ Ran({"motionReset"}) /\ Len(motionTimers') < Len(motionTimers)
           => /\ motionData' = INITIAL_MOTION
              /\ << showLanding, currentFrame, isRecording, transcribedAudio,
                    isAnalyzing, loadingText, currentAnalysis, explorationLog, error,
                    userQuery, isQuerying, queryResult >>'
                 = << showLanding, currentFrame, isRecording, transcribedAudio,
                      isAnalyzing, loadingText, currentAnalysis, explorationLog, error,
                      userQuery, isQuerying, queryResult >>
              /\ now' = now ]_vars

C20_Witness ==
  /\ lastEvent = "motionReset"
  /\ issued.motion = 2
  /\ motionTimers = << >>
  /\ motionData = INITIAL_MOTION

\* C21: whenever a query result is displayed, a current analysis exists and
\* it is the analysis that was sent as context with the question answered.
C21_AnswerMatchesAnalysis ==
  ~showLanding /\ queryResult /= None
    => /\ currentAnalysis /= None
       /\ queryResult[1].reasoning = currentAnalysis[1].ref

\* The recording whose transcribeAudio call settles in this step, as a set.
Transcribed == transcribing \ transcribing'

\* C22: a transcription response for an earlier recording that arrives while
\* the transcript of a later recording is stored does not overwrite it, so the
\* stored transcript is the one of the most recently stopped recording.
C22_LatestTranscriptWins ==
  [][ \A id \in Transcribed, later \in DOMAIN recorders :
        /\ Ran({"transcribeResolved"})
        /\ later > id
        /\ transcribedAudio = Some(ClipTexts[later])
        => transcribedAudio' = transcribedAudio ]_vars

====
